---- MODULE Spec2Model ----
(***************************************************************************)
(* A model of the valve-server-query client (src/src/lib.rs): the query    *)
(* engine info() / players() / rules(), its challenge handshake, the       *)
(* packet classifier, the multi-packet reassembly and the payload          *)
(* decoders.  Bytes are naturals 0..255, byte strings are sequences.       *)
(***************************************************************************)
EXTENDS Integers, Sequences, FiniteSets, TLC

\* ------------------------------------------------------------------------
\* Program constants (lib.rs:26-30)
\* ------------------------------------------------------------------------
PACKET_SIZE == 1400

SIMPLE_RESPONSE_HEADER == <<255, 255, 255, 255>>

MULTI_PACKET_RESPONSE_HEADER == <<255, 255, 255, 254>>

\* ------------------------------------------------------------------------
\* Bounds of the model
\* ------------------------------------------------------------------------
\* calls of info()/players()/rules() made one after the other on one Server
MaxCalls == 2

\* receives one call may perform (caps the reassembly loop)
MaxRecv == 5

\* ------------------------------------------------------------------------
\* Primitive codec (mod types).  An iterator over a byte slice is the
\* record [ok, it, v]: `it` the bytes not yet consumed, `v` the value read
\* last, `ok` FALSE once an `expect("next byte exists")` has panicked.
\* ------------------------------------------------------------------------
Iter(bytes) == [ok |-> TRUE, it |-> bytes, v |-> 0]

Panicked == [ok |-> FALSE, it |-> <<>>, v |-> 0]

Drop(s, k) == SubSeq(s, k + 1, Len(s))

get_byte(c) ==
    IF ~c.ok \/ Len(c.it) < 1 THEN Panicked
    ELSE [ok |-> TRUE, it |-> Drop(c.it, 1), v |-> c.it[1]]

\* the most significant byte of a signed value, in two's complement
Signed(b) == IF b >= 128 THEN b - 256 ELSE b

\* i16::from_le_bytes
get_short(c) ==
    IF ~c.ok \/ Len(c.it) < 2 THEN Panicked
    ELSE [ok |-> TRUE, it |-> Drop(c.it, 2),
          v |-> c.it[1] + 256 * Signed(c.it[2])]

\* i32::from_le_bytes
get_long(c) ==
    IF ~c.ok \/ Len(c.it) < 4 THEN Panicked
    ELSE [ok |-> TRUE, it |-> Drop(c.it, 4),
          v |-> (c.it[1] + 256 * c.it[2] + 65536 * c.it[3])
                + 16777216 * Signed(c.it[4])]

\* f32::from_le_bytes: the value is its IEEE-754 bit pattern, written here
\* as its four bytes from the most significant to the least significant
get_float(c) ==
    IF ~c.ok \/ Len(c.it) < 4 THEN Panicked
    ELSE [ok |-> TRUE, it |-> Drop(c.it, 4),
          v |-> <<c.it[4], c.it[3], c.it[2], c.it[1]>>]

\* u64::from_le_bytes: the value written in base 256, most significant
\* digit first (64 bits do not fit the integers of TLC)
get_longlong(c) ==
    IF ~c.ok \/ Len(c.it) < 8 THEN Panicked
    ELSE [ok |-> TRUE, it |-> Drop(c.it, 8),
          v |-> <<c.it[8], c.it[7], c.it[6], c.it[5],
                  c.it[4], c.it[3], c.it[2], c.it[1]>>]

\* position of the first zero byte of s, 0 when there is none
FirstZero(s) ==
    IF \E i \in 1..Len(s) : s[i] = 0
    THEN CHOOSE i \in 1..Len(s) : s[i] = 0 /\ \A j \in 1..(i - 1) : s[j] # 0
    ELSE 0

\* a get_string that stops in front of the zero byte and leaves it under
\* the cursor
get_string_unconsumed(c) ==
    IF ~c.ok \/ FirstZero(c.it) = 0 THEN Panicked
    ELSE [ok |-> TRUE, it |-> Drop(c.it, FirstZero(c.it) - 1),
          v |-> SubSeq(c.it, 1, FirstZero(c.it) - 1)]

\* the loop of get_string: push every byte as one char until a zero byte,
\* which is consumed; running out of bytes first panics
get_string(c) ==
    IF ~c.ok \/ FirstZero(c.it) = 0 THEN Panicked
    ELSE [ok |-> TRUE, it |-> Drop(c.it, FirstZero(c.it)),
          v |-> SubSeq(c.it, 1, FirstZero(c.it) - 1)]

\* ------------------------------------------------------------------------
\* The receive buffer.  Every recv() is made into a buffer of PACKET_SIZE
\* zero bytes (lib.rs:683, 704, 724), so a buffer is known by the datagram
\* written into it: `buf` holds the bytes_returned bytes received, every
\* byte of the buffer behind them is zero.
\* ------------------------------------------------------------------------
\* buffer[i], i counted from 0
BufAt(buf, i) == IF i < Len(buf) THEN buf[i + 1] ELSE 0

\* buffer[from..to]: a slice panics when from > to or to > PACKET_SIZE
SliceOk(from, to) == from <= to /\ to <= PACKET_SIZE

Slice(buf, from, to) == [k \in 1..(to - from) |-> BufAt(buf, from + k - 1)]

\* &buffer[..4]
PacketHeader(buf) == Slice(buf, 0, 4)

\* ------------------------------------------------------------------------
\* mod utils
\* ------------------------------------------------------------------------
\* (answer_id, total, packet_id) of a split packet, read from the whole
\* buffer: header long, answer id long, total byte, packet id byte
get_multipacket_data(buf) ==
    LET c0 == Iter(Slice(buf, 0, 10))
        c1 == get_long(c0)
        c2 == get_long(c1)
        c3 == get_byte(c2)
        c4 == get_byte(c3)
    IN  [answer_id |-> c2.v, total |-> c3.v, packet_id |-> c4.v]

\* position of the last non-zero byte of s[1..len], 0 when there is none
LastNonZero(s, len) ==
    IF \E i \in 1..len : s[i] # 0
    THEN CHOOSE i \in 1..len : s[i] # 0 /\ \A j \in (i + 1)..len : s[j] = 0
    ELSE 0

\* the pop loop of compress_trailing_null_bytes on the vector bytes[1..len]:
\*   while last == 0 && bytes.len() > 0 { last = bytes.pop() }
\* It pops the zero bytes at the end and then one more byte, which is the
\* last non-zero byte, or bytes[1] when every byte is zero.
PopLoop(bytes, len, last) ==
    IF last # 0 \/ len = 0 THEN [len |-> len, last |-> last]
    ELSE IF LastNonZero(bytes, len) = 0 THEN [len |-> 0, last |-> bytes[1]]
    ELSE [len |-> LastNonZero(bytes, len) - 1,
          last |-> bytes[LastNonZero(bytes, len)]]

compress_trailing_null_bytes(bytes) ==
    IF Len(bytes) = 0 \/ Len(bytes) = 1 THEN bytes
    ELSE IF bytes[Len(bytes)] # 0 THEN bytes
    ELSE LET p == PopLoop(bytes, Len(bytes) - 1, bytes[Len(bytes)])
         IN  SubSeq(bytes, 1, p.len) \o <<p.last, 0>>

\* ------------------------------------------------------------------------
\* mod models: Player
\* ------------------------------------------------------------------------
\* Player::from_iter_bytes: one record read from the iterator; v is the
\* Player
from_iter_bytes(c) ==
    LET c1 == get_byte(c)
        c2 == get_string(c1)
        c3 == get_long(c2)
        c4 == get_float(c3)
    IN  IF ~c4.ok THEN Panicked
        ELSE [ok |-> TRUE, it |-> c4.it,
              v |-> [index |-> c1.v, name |-> c2.v,
                     score |-> c3.v, duration |-> c4.v]]

\* a footprint that counts the zero byte of the name as well
PlayerFootprintWithName == 1 + 1 + 4 + 4

\* size_of::<Byte>() + size_of::<Long>() + size_of::<Float>()
PlayerFootprint == 1 + 4 + 4

\* a loop that goes on while at least PlayerFootprint bytes are left
RECURSIVE PlayersLoopAtLeast(_, _)
PlayersLoopAtLeast(c, players) ==
    IF Len(c.it) >= PlayerFootprint
    THEN LET p == from_iter_bytes(c)
         IN  IF ~p.ok THEN [ok |-> FALSE, v |-> <<>>]
             ELSE PlayersLoopAtLeast(p, Append(players, p.v))
    ELSE [ok |-> TRUE, v |-> players]

\* the loop of Player::get_players from the iterator state c with the
\* players decoded so far
RECURSIVE PlayersLoop(_, _)
PlayersLoop(c, players) ==
    IF Len(c.it) > PlayerFootprint
    THEN LET p == from_iter_bytes(c)
         IN  IF ~p.ok THEN [ok |-> FALSE, v |-> <<>>]
             ELSE PlayersLoop(p, Append(players, p.v))
    ELSE [ok |-> TRUE, v |-> players]

get_players(bytes) == PlayersLoop(Iter(bytes), <<>>)

\* ------------------------------------------------------------------------
\* mod server: Server::get_rules
\* ------------------------------------------------------------------------

\* an insertion that keeps the value of an existing key
MapInsertKeepFirst(m, k, v) ==
    [x \in DOMAIN m \cup {k} |-> IF x \in DOMAIN m THEN m[x] ELSE v]

\* HashMap::insert: the value of an existing key is replaced
MapInsert(m, k, v) == [x \in DOMAIN m \cup {k} |-> IF x = k THEN v ELSE m[x]]

EmptyMap == [x \in {} |-> <<>>]

RECURSIVE RulesLoop(_, _)
RulesLoop(c, rules) ==
    IF Len(c.it) > 0
    THEN LET n == get_string(c)
             v == get_string(n)
         IN  IF ~v.ok THEN [ok |-> FALSE, v |-> EmptyMap]
             ELSE RulesLoop(v, MapInsert(rules, n.v, v.v))
    ELSE [ok |-> TRUE, v |-> rules]

get_rules(bytes) == RulesLoop(Iter(bytes), EmptyMap)

\* ------------------------------------------------------------------------
\* mod models::info
\* ------------------------------------------------------------------------
\* Option<T>: None is the empty tuple, Some(x) the one-element tuple
None == <<>>

Some(x) == <<x>>

\* the four from_byte functions: the variant, or "panic" for the `_` arm
ServerType_from_byte(byte) ==
    CASE byte = 100 -> "Dedicated"
      [] byte = 108 -> "NonDedicated"
      [] byte = 112 -> "SourceTvRelay"
      [] OTHER -> "panic"

Platform_from_byte(byte) ==
    CASE byte = 108 -> "Linux"
      [] byte = 119 -> "Windows"
      [] byte = 109 -> "Mac"
      [] byte = 111 -> "Mac"
      [] OTHER -> "panic"

Visibility_from_byte(byte) ==
    CASE byte = 0 -> "Public"
      [] byte = 1 -> "Private"
      [] OTHER -> "panic"

Vac_from_byte(byte) ==
    CASE byte = 0 -> "Unsecured"
      [] byte = 1 -> "Secured"
      [] OTHER -> "panic"

\* (flag & mask) != 0 for a one-bit mask
BitSet(flag, mask) == (flag \div mask) % 2 = 1

\* a test that looks at the presence of the flag byte only
GateAnyFlag(flag, mask) == flag # None

\* extra_data_flag.is_some() && (extra_data_flag & mask) != 0
Gate(flag, mask) == flag # None /\ BitSet(flag[1], mask)

\* the trailing_bytes expression of Info::from_bytes (lib.rs:357-370)
TrailingBytes(rest) ==
    IF Len(rest) > 0
    THEN LET min_bytes == compress_trailing_null_bytes(rest)
         IN  IF Len(min_bytes) = 1 /\ min_bytes[Len(min_bytes)] = 0
             THEN None
             ELSE Some(min_bytes)
    ELSE None

\* one read of Info::from_bytes, by the kind of the field: a primitive of
\* the codec, a byte run through a from_byte, or the `it.next()` of the
\* extra data flag, which is None on an exhausted iterator
EnumByte(got, variant) ==
    IF ~got.ok \/ variant = "panic" THEN Panicked
    ELSE [ok |-> TRUE, it |-> got.it, v |-> variant]

NextByte(c) ==
    IF ~c.ok THEN Panicked
    ELSE IF Len(c.it) > 0
    THEN [ok |-> TRUE, it |-> Drop(c.it, 1), v |-> Some(c.it[1])]
    ELSE [ok |-> TRUE, it |-> c.it, v |-> None]

Read(c, kind) ==
    CASE kind = "byte" -> get_byte(c)
      [] kind = "short" -> get_short(c)
      [] kind = "longlong" -> get_longlong(c)
      [] kind = "string" -> get_string(c)
      [] kind = "ServerType" ->
           EnumByte(get_byte(c), ServerType_from_byte(get_byte(c).v))
      [] kind = "Platform" ->
           EnumByte(get_byte(c), Platform_from_byte(get_byte(c).v))
      [] kind = "Visibility" ->
           EnumByte(get_byte(c), Visibility_from_byte(get_byte(c).v))
      [] kind = "Vac" ->
           EnumByte(get_byte(c), Vac_from_byte(get_byte(c).v))
      [] kind = "next" -> NextByte(c)

\* a from_bytes that reads the SteamID before the port
InfoFieldsSteamFirst ==
    << <<"header", "byte", 0>>, <<"protocol", "byte", 0>>,
       <<"name", "string", 0>>, <<"map", "string", 0>>,
       <<"folder", "string", 0>>, <<"game", "string", 0>>,
       <<"id", "short", 0>>, <<"players", "byte", 0>>,
       <<"max_players", "byte", 0>>, <<"bots", "byte", 0>>,
       <<"server_type", "ServerType", 0>>, <<"environment", "Platform", 0>>,
       <<"visibility", "Visibility", 0>>, <<"vac", "Vac", 0>>,
       <<"game_version", "string", 0>>, <<"extra_data_flag", "next", 0>>,
       <<"steam_id", "longlong", 16>>, <<"port", "short", 128>>,
       <<"spectator_port", "short", 64>>, <<"spectator_name", "string", 64>>,
       <<"keywords", "string", 32>>, <<"game_id", "longlong", 1>> >>

\* the fields of Info in the order from_bytes reads them: name, kind, and
\* the bit of extra_data_flag that gates the field (0: always read)
InfoFields ==
    << <<"header", "byte", 0>>, <<"protocol", "byte", 0>>,
       <<"name", "string", 0>>, <<"map", "string", 0>>,
       <<"folder", "string", 0>>, <<"game", "string", 0>>,
       <<"id", "short", 0>>, <<"players", "byte", 0>>,
       <<"max_players", "byte", 0>>, <<"bots", "byte", 0>>,
       <<"server_type", "ServerType", 0>>, <<"environment", "Platform", 0>>,
       <<"visibility", "Visibility", 0>>, <<"vac", "Vac", 0>>,
       <<"game_version", "string", 0>>, <<"extra_data_flag", "next", 0>>,
       <<"port", "short", 128>>, <<"steam_id", "longlong", 16>>,
       <<"spectator_port", "short", 64>>, <<"spectator_name", "string", 64>>,
       <<"keywords", "string", 32>>, <<"game_id", "longlong", 1>> >>

\* the state of from_bytes: the iterator (ok, it) and the fields read (f)
SetField(c, name, x) ==
    [ok |-> c.ok, it |-> c.it, f |-> (name :> x) @@ c.f]

\* one `let field = ...` of from_bytes
ReadField(c, fd) ==
    LET got == Read([ok |-> c.ok, it |-> c.it, v |-> 0], fd[2])
    IN  IF ~c.ok THEN c
        ELSE IF fd[3] = 0
        THEN [ok |-> got.ok, it |-> got.it, f |-> (fd[1] :> got.v) @@ c.f]
        ELSE IF Gate(c.f["extra_data_flag"], fd[3])
        THEN [ok |-> got.ok, it |-> got.it,
              f |-> (fd[1] :> Some(got.v)) @@ c.f]
        ELSE SetField(c, fd[1], None)

RECURSIVE ReadFields(_, _)
ReadFields(c, fields) ==
    IF fields = <<>> THEN c
    ELSE ReadFields(ReadField(c, Head(fields)), Tail(fields))

\* Info::from_bytes: [ok, v]; ok is FALSE when a read or a from_byte panics
Info_from_bytes(bytes) ==
    LET c == ReadFields([ok |-> TRUE, it |-> bytes, f |-> <<>>], InfoFields)
    IN  IF ~c.ok THEN [ok |-> FALSE, v |-> <<>>]
        ELSE [ok |-> TRUE,
              v |-> ("trailing_bytes" :> TrailingBytes(c.it)) @@ c.f]

\* ------------------------------------------------------------------------
\* mod server: requests and the challenge
\* ------------------------------------------------------------------------
Ops == {"info", "players", "rules"}

\* the 4-byte simple header followed by "TSource Engine Query\0"
InfoRequest ==
    <<255, 255, 255, 255, 84, 83, 111, 117, 114, 99, 101, 32, 69, 110, 103,
      105, 110, 101, 32, 81, 117, 101, 114, 121, 0>>

\* header byte of the A2S_PLAYER (0x55) and A2S_RULES (0x56) requests
KindByte(o) == IF o = "players" THEN 85 ELSE 86

\* the request a call sends first
InitialRequest(o) ==
    IF o = "info" THEN InfoRequest
    ELSE <<255, 255, 255, 255, KindByte(o), 255, 255, 255, 255>>

\* the vector the challenge is appended to for the second send
RequestStem(o) ==
    IF o = "info" THEN InfoRequest ELSE <<255, 255, 255, 255, KindByte(o)>>

\* length of the buffer once its trailing zero bytes are skipped
\* (.rev().skip_while(|&i| i == 0)): position of the last non-zero byte
TrimmedLen(buf) == LastNonZero(buf, Len(buf))

\* the challenge expression: the trimmed buffer from byte 5 on; the range
\* [5..] panics on a trimmed buffer shorter than 5 bytes
ChallengeOk(buf) == TrimmedLen(buf) >= 5

Challenge(buf) == SubSeq(buf, 6, TrimmedLen(buf))

\* ------------------------------------------------------------------------
\* mod server: classification, reassembly and decoding of the answer
\* ------------------------------------------------------------------------
NoResult == [kind |-> "None", v |-> <<>>]

OkResult(x) == [kind |-> "Ok", v |-> x]

IoError == [kind |-> "Err", v |-> <<"io">>]

Panic(msg) == [kind |-> "Panic", v |-> <<msg>>]

\* packet_map.len() as u8
LenAsU8(packet_map) == Cardinality(DOMAIN packet_map) % 256

\* the stored payloads joined in descending order of their keys
RECURSIVE SortedConcatDescending(_)
SortedConcatDescending(packet_map) ==
    IF DOMAIN packet_map = {} THEN <<>>
    ELSE LET k == CHOOSE x \in DOMAIN packet_map :
                      \A y \in DOMAIN packet_map : x >= y
         IN  packet_map[k]
             \o SortedConcatDescending(
                    [x \in DOMAIN packet_map \ {k} |-> packet_map[x]])

\* v.sort_by_key(|i| i.0) then flatten: the stored payloads joined in
\* ascending order of their keys
RECURSIVE SortedConcat(_)
SortedConcat(packet_map) ==
    IF DOMAIN packet_map = {} THEN <<>>
    ELSE LET k == CHOOSE x \in DOMAIN packet_map :
                      \A y \in DOMAIN packet_map : x <= y
         IN  packet_map[k]
             \o SortedConcat([x \in DOMAIN packet_map \ {k} |-> packet_map[x]])

\* the last statements of each operation: what is decoded and returned
Decode(o, pl, buf) ==
    CASE o = "info" ->
           LET info == Info_from_bytes(pl)
           IN  IF info.ok THEN OkResult(info.v) ELSE Panic("decode")
      [] o = "players" ->
           \* &payload[0], then Player::get_players(&buffer[2..bytes_returned + 1])
           IF Len(pl) = 0 \/ ~SliceOk(2, Len(buf) + 1) THEN Panic("index")
           ELSE LET ps == get_players(Slice(buf, 2, Len(buf) + 1))
                IN  IF ps.ok THEN OkResult(ps.v) ELSE Panic("decode")
      [] o = "rules" ->
           LET rs == get_rules(pl)
           IN  IF rs.ok THEN OkResult(rs.v) ELSE Panic("decode")

\* what an operation's locals are after a step: the next program point,
\* the value returned (if any), and total, packet_map, payload
Returned(r, t, m, pl) ==
    [pc |-> IF r.kind = "Panic" THEN "aborted" ELSE "returned",
     result |-> r, total |-> t, packet_map |-> m, payload |-> pl]

\* the test of the while loop, and what follows the loop
Reassemble(o, t, m, buf) ==
    IF t > LenAsU8(m)
    THEN [pc |-> "recvFrag", result |-> NoResult, total |-> t,
          packet_map |-> m, payload |-> <<>>]
    ELSE Returned(Decode(o, SortedConcat(m), buf), t, m, SortedConcat(m))

\* the fragment's bytes: buffer[(4 + 4 + 1 + 1)..bytes_returned + 1]
FragmentOk(buf) == SliceOk(10, Len(buf) + 1)

Fragment(buf) == Slice(buf, 10, Len(buf) + 1)

\* the payload of a simple response
SimpleOk(o, buf) == o = "info" => SliceOk(4, Len(buf) + 1)

SimplePayload(o, buf) ==
    CASE o = "info" -> Slice(buf, 4, Len(buf) + 1)
      [] o = "players" -> Slice(buf, 4, PACKET_SIZE)
      [] o = "rules" -> compress_trailing_null_bytes(Slice(buf, 7, PACKET_SIZE))

\* the if / else if / else on packet_header, run on the answer in buf
Classify(o, buf) ==
    IF PacketHeader(buf) = SIMPLE_RESPONSE_HEADER
    THEN IF ~SimpleOk(o, buf)
         THEN Returned(Panic("slice"), 0, EmptyMap, <<>>)
         ELSE Returned(Decode(o, SimplePayload(o, buf), buf), 0, EmptyMap,
                       SimplePayload(o, buf))
    ELSE IF PacketHeader(buf) = MULTI_PACKET_RESPONSE_HEADER
    THEN LET mp == get_multipacket_data(buf)
         IN  IF ~FragmentOk(buf)
             THEN Returned(Panic("slice"), mp.total, EmptyMap, <<>>)
             ELSE Reassemble(o, mp.total,
                             MapInsert(EmptyMap, mp.packet_id, Fragment(buf)),
                             buf)
    ELSE Returned(Panic("An unknown packet header was received."),
                  0, EmptyMap, <<>>)

\* the body of the while loop, run on the datagram in buf
LoopBody(o, t, m, buf) ==
    LET mp == get_multipacket_data(buf)
    IN  IF ~FragmentOk(buf) THEN Returned(Panic("slice"), t, m, <<>>)
        ELSE Reassemble(o, t, MapInsert(m, mp.packet_id, Fragment(buf)), buf)

\* ------------------------------------------------------------------------
\* The server's side: the datagrams a recv() may deliver
\* ------------------------------------------------------------------------
\* S2C_CHALLENGE: FF FF FF FF 'A' and a 4-byte token
ChallengeReply == <<255, 255, 255, 255, 65, 17, 34, 51, 68>>

\* a challenge whose token ends in a zero byte
ChallengeZeroEnd == <<255, 255, 255, 255, 65, 17, 34, 51, 0>>

\* nine bytes of which only the header is non-zero
ChallengeBlank == <<255, 255, 255, 255, 0, 0, 0, 0, 0>>

\* a simple A2S_INFO answer without extra data flag
InfoAnswer ==
    <<255, 255, 255, 255, 73, 17, 83, 0, 77, 0, 70, 0, 71, 0, 10, 0,
      1, 8, 0, 100, 108, 0, 1, 49, 0>>

\* a simple A2S_PLAYER answer with one player
PlayersAnswer ==
    <<255, 255, 255, 255, 68, 1, 0, 112, 0, 5, 0, 0, 0, 0, 0, 128, 63>>

\* a simple A2S_RULES answer with one rule
RulesAnswer == <<255, 255, 255, 255, 69, 1, 0, 110, 0, 118, 0>>

\* a simple A2S_RULES answer with one rule whose value is the empty string
RulesAnswerEmptyValue == <<255, 255, 255, 255, 69, 1, 0, 110, 0, 0>>

\* neither the simple nor the split marker
UnknownHeader == <<1, 2, 3, 4, 5>>

\* a split packet: marker, answer id, total, packet id, payload
Split(id, t, n, pl) == <<255, 255, 255, 254, id, 0, 0, 0, t, n>> \o pl

\* a split marker with nothing behind the first byte of the answer id
SplitShort == <<255, 255, 255, 254, 7>>

\* a split packet that fills the receive buffer
SplitFull == Split(7, 3, 1, [i \in 1..(PACKET_SIZE - 10) |-> 1])

\* a fragment of another answer: answer id 8 instead of 7
SplitOtherAnswer == Split(8, 3, 1, <<13>>)

Fragments ==
    { Split(7, 3, 0, <<10>>), Split(7, 3, 0, <<20>>), Split(7, 3, 1, <<11>>),
      Split(7, 3, 2, <<12>>), Split(7, 2, 1, <<21>>), Split(7, 0, 0, <<30>>),
      SplitShort, SplitFull, SplitOtherAnswer }

Datagrams ==
    { ChallengeReply, ChallengeZeroEnd, ChallengeBlank, InfoAnswer,
      PlayersAnswer, RulesAnswer, RulesAnswerEmptyValue, UnknownHeader,
      <<>> } \cup Fragments

\* ------------------------------------------------------------------------
\* State
\* ------------------------------------------------------------------------
VARIABLES
    pc,          \* where the calling thread is: idle, send1, recv1, send2,
                 \* recv2, recvFrag, returned, aborted (panicked)
    op,          \* the operation being called
    request,     \* the request vector
    buffer,      \* the datagram in the receive buffer (bytes_returned bytes)
    total,       \* total declared by the first fragment
    packet_map,  \* packet id -> bytes
    payload,     \* the payload handed to the decoder
    result,      \* what the call returned
    sent,        \* the datagrams passed to send_to during this call
    log,         \* the socket calls and the classification of this call
    answer,      \* the datagram run through the header classification
    nrecv,       \* datagrams received during this call
    calls,       \* calls made so far
    learned      \* a challenge was taken from a reply, in this call or an
                 \* earlier one

vars == <<pc, op, request, buffer, total, packet_map, payload, result, sent,
          log, answer, nrecv, calls, learned>>

Init ==
    /\ pc = "idle"
    /\ op = "none"
    /\ request = <<>>
    /\ buffer = <<>>
    /\ total = 0
    /\ packet_map = EmptyMap
    /\ payload = <<>>
    /\ result = NoResult
    /\ sent = <<>>
    /\ log = <<>>
    /\ answer = None
    /\ nrecv = 0
    /\ calls = 0
    /\ learned = FALSE

\* the locals of a call take the values of the record out
Locals(out) ==
    /\ pc' = out.pc
    /\ result' = out.result
    /\ total' = out.total
    /\ packet_map' = out.packet_map
    /\ payload' = out.payload

\* ------------------------------------------------------------------------
\* Actions
\* ------------------------------------------------------------------------
\* an entry that reuses the request vector of the previous call when the
\* same operation is called again
CallKeepingRequest(o) ==
    /\ pc \in {"idle", "returned"}
    /\ calls < MaxCalls
    /\ calls' = calls + 1
    /\ op' = o
    /\ request' = IF op = o THEN request ELSE InitialRequest(o)
    /\ buffer' = <<>>
    /\ Locals([pc |-> "send1", result |-> NoResult, total |-> 0,
               packet_map |-> EmptyMap, payload |-> <<>>])
    /\ sent' = <<>>
    /\ log' = <<>>
    /\ answer' = None
    /\ nrecv' = 0
    /\ learned' = learned

\* entry of info(), players() or rules(): every local is fresh
Call(o) ==
    /\ pc \in {"idle", "returned"}
    /\ calls < MaxCalls
    /\ calls' = calls + 1
    /\ op' = o
    /\ request' = InitialRequest(o)
    /\ buffer' = <<>>
    /\ Locals([pc |-> "send1", result |-> NoResult, total |-> 0,
               packet_map |-> EmptyMap, payload |-> <<>>])
    /\ sent' = <<>>
    /\ log' = <<>>
    /\ answer' = None
    /\ nrecv' = 0
    /\ learned' = learned

\* self.socket.send_to(&request, &self.addr)? succeeds
SendRequest ==
    /\ pc \in {"send1", "send2"}
    /\ sent' = Append(sent, request)
    /\ log' = Append(log, "send")
    /\ pc' = IF pc = "send1" THEN "recv1" ELSE "recv2"
    /\ UNCHANGED <<op, request, buffer, total, packet_map, payload, result,
                   answer, nrecv, calls, learned>>

\* send_to fails: `?` returns the error
SendError ==
    /\ pc \in {"send1", "send2"}
    /\ sent' = Append(sent, request)
    /\ log' = Append(log, "sendErr")
    /\ pc' = "returned"
    /\ result' = IoError
    /\ UNCHANGED <<op, request, buffer, total, packet_map, payload, answer,
                   nrecv, calls, learned>>

\* a timeout in the loop that returns what was received so far
RecvErrorPartial ==
    /\ pc \in {"recv1", "recv2", "recvFrag"}
    /\ log' = Append(log, "recvErr")
    /\ pc' = "returned"
    /\ result' = IF pc = "recvFrag" THEN OkResult(SortedConcat(packet_map))
                 ELSE IoError
    /\ UNCHANGED <<op, request, buffer, total, packet_map, payload, sent,
                   answer, nrecv, calls, learned>>

\* recv fails (the read timeout elapsed): `?` returns the error
RecvError ==
    /\ pc \in {"recv1", "recv2", "recvFrag"}
    /\ log' = Append(log, "recvErr")
    /\ pc' = "returned"
    /\ result' = IoError
    /\ UNCHANGED <<op, request, buffer, total, packet_map, payload, sent,
                   answer, nrecv, calls, learned>>

\* a first recv that takes any reply not 9 bytes long for the answer,
\* whatever the operation
RecvFirstAsAnswer(d) ==
    /\ pc = "recv1"
    /\ Len(d) # 9
    /\ buffer' = d
    /\ nrecv' = nrecv + 1
    /\ log' = log \o <<"recv", "classify">>
    /\ answer' = Some(d)
    /\ Locals(Classify(op, d))
    /\ UNCHANGED <<op, request, sent, calls, learned>>

\* the first recv of info() delivers d, which is not 9 bytes long: d is
\* the answer
RecvInfoAnswer(d) ==
    /\ pc = "recv1"
    /\ op = "info"
    /\ Len(d) # 9
    /\ buffer' = d
    /\ nrecv' = nrecv + 1
    /\ log' = log \o <<"recv", "classify">>
    /\ answer' = Some(d)
    /\ Locals(Classify(op, d))
    /\ UNCHANGED <<op, request, sent, calls, learned>>

\* the first recv delivers d, from which the challenge is taken (info():
\* only when d is 9 bytes long)
RecvChallenge(d) ==
    /\ pc = "recv1"
    /\ op = "info" => Len(d) = 9
    /\ buffer' = d
    /\ nrecv' = nrecv + 1
    /\ log' = Append(log, "recv")
    /\ IF ChallengeOk(d)
       THEN /\ request' = RequestStem(op) \o Challenge(d)
            /\ pc' = "send2"
            /\ result' = result
            /\ learned' = TRUE
       ELSE /\ request' = request
            /\ pc' = "aborted"
            /\ result' = Panic("range start index 5 out of range")
            /\ learned' = learned
    /\ UNCHANGED <<op, total, packet_map, payload, sent, answer, calls>>

\* a second recv that takes a 9-byte reply for one more challenge
RecvAnswerRechallenge(d) ==
    /\ pc = "recv2"
    /\ buffer' = d
    /\ nrecv' = nrecv + 1
    /\ IF Len(d) = 9 /\ ChallengeOk(d)
       THEN /\ request' = RequestStem(op) \o Challenge(d)
            /\ pc' = "send2"
            /\ log' = Append(log, "recv")
            /\ UNCHANGED <<answer, result, total, packet_map, payload>>
       ELSE /\ request' = request
            /\ log' = log \o <<"recv", "classify">>
            /\ answer' = Some(d)
            /\ Locals(Classify(op, d))
    /\ UNCHANGED <<op, sent, calls, learned>>

\* the recv after the second send delivers d: d is the answer
RecvAnswer(d) ==
    /\ pc = "recv2"
    /\ buffer' = d
    /\ nrecv' = nrecv + 1
    /\ log' = log \o <<"recv", "classify">>
    /\ answer' = Some(d)
    /\ Locals(Classify(op, d))
    /\ UNCHANGED <<op, request, sent, calls, learned>>

\* one turn of the while loop: the recv delivers d
RecvFragment(d) ==
    /\ pc = "recvFrag"
    /\ nrecv < MaxRecv
    /\ buffer' = d
    /\ nrecv' = nrecv + 1
    /\ log' = Append(log, "recv")
    /\ Locals(LoopBody(op, total, packet_map, d))
    /\ UNCHANGED <<op, request, sent, answer, calls, learned>>

Recv(d) ==
    \/ RecvInfoAnswer(d)
    \/ RecvChallenge(d)
    \/ RecvAnswer(d)
    \/ RecvFragment(d)

Next ==
    \/ \E o \in Ops : Call(o)
    \/ SendRequest
    \/ SendError
    \/ RecvError
    \/ \E d \in Datagrams : Recv(d)

Spec == Init /\ [][Next]_vars

\* ------------------------------------------------------------------------
\* The decoders called on their own.  Info::from_bytes, Player::get_players,
\* Server::get_rules, the getters of mod types and
\* compress_trailing_null_bytes are functions of a byte slice: a call takes
\* the slice in payload and leaves in result what the function returns; a
\* panic aborts the caller.  The slices are drawn from the sets below.
\* ------------------------------------------------------------------------
\* bytes behind the fixed fields of an Info payload, and behind the records
\* of a player payload
MaxTail == 30

\* records of a player payload
MaxPlayers == 2

\* bytes of a player's name
MaxName == 2

\* pairs of a rules payload
MaxPairs == 3

\* bytes handed to compress_trailing_null_bytes
MaxBytes == 5

\* bytes under the cursor handed to a getter
MaxCursor == 9

\* byte strings over the bytes of `alphabet`, at most n long
ByteSeqs(alphabet, n) == UNION {[1..k -> alphabet] : k \in 0..n}

RECURSIVE Flatten(_)
Flatten(ss) == IF ss = <<>> THEN <<>> ELSE Head(ss) \o Flatten(Tail(ss))

\* two families of byte strings: 1 2 3 4 0 6 7 8 9 0 11 ... and
\* 0 0 3 0 0 6 0 0 9 ...
Ramp(n) == [i \in 1..n |-> IF i % 5 = 0 THEN 0 ELSE i]

Sparse(n) == [i \in 1..n |-> IF i % 3 = 0 THEN i ELSE 0]

Tails == {Ramp(n) : n \in 0..MaxTail} \cup {Sparse(n) : n \in 0..MaxTail}

\* the fields of an A2S_INFO payload up to the game version, with the four
\* enum bytes given: 'I', protocol 17, "S", "M", "F", "G", id 10, 1 of 8
\* players, no bots, the enum bytes, version "1"
InfoHead(st, env, vis, vac) ==
    <<73, 17, 83, 0, 77, 0, 70, 0, 71, 0, 10, 0, 1, 8, 0,
      st, env, vis, vac, 49, 0>>

\* a dedicated Linux server, public, VAC secured
InfoHeadPlain == InfoHead(100, 108, 0, 1)

InfoInputs ==
    {InfoHeadPlain \o <<f>> \o t : f \in 0..255, t \in Tails}
        \cup {InfoHead(st, env, vis, vac) :
                  st \in {100, 108, 112, 0, 68},
                  env \in {108, 119, 109, 111, 76},
                  vis \in {0, 1, 2}, vac \in {0, 1, 255}}
        \cup {SubSeq(InfoHeadPlain, 1, n) : n \in 0..Len(InfoHeadPlain)}

\* a Player on the wire: index, name and a zero byte, score and duration
\* in little-endian order
LongWire(v) ==
    <<v % 256, (v \div 256) % 256, (v \div 65536) % 256,
      (v \div 16777216) % 256>>

PlayerWire(p) ==
    <<p.index>> \o p.name \o <<0>> \o LongWire(p.score)
        \o <<p.duration[4], p.duration[3], p.duration[2], p.duration[1]>>

PlayersWire(ps) == Flatten([i \in 1..Len(ps) |-> PlayerWire(ps[i])])

\* the players a server may list: names "", "A", "AB", ...; score 5 after
\* 1.0 seconds, or score -1 after 0.0 seconds
PlayerPool ==
    {[index |-> s[1], name |-> [i \in 1..n |-> 64 + i], score |-> s[2],
      duration |-> s[3]] :
         n \in 0..MaxName,
         s \in {<<0, 5, <<63, 128, 0, 0>> >>, <<255, -1, <<0, 0, 0, 0>> >>}}

PlayerLists == UNION {[1..k -> PlayerPool] : k \in 0..MaxPlayers}

PlayerInputs == {PlayersWire(ps) \o t : ps \in PlayerLists, t \in Tails}

\* rules on the wire: every name and every value followed by a zero byte
RulesWire(rs) ==
    Flatten([i \in 1..Len(rs) |-> rs[i][1] \o <<0>> \o rs[i][2] \o <<0>>])

RulePool == {<<110>>, <<109, 112>>, <<>>} \X {<<49>>, <<50, 51>>, <<>>}

RuleLists == UNION {[1..k -> RulePool] : k \in 0..MaxPairs}

\* what may end a rules payload: nothing, a string without its zero byte,
\* a name without a value, a value without its zero byte
RuleEnds == {<<>>, <<110>>, <<110, 0>>, <<110, 0, 118>>}

RulesInputs == {RulesWire(rs) \o e : rs \in RuleLists, e \in RuleEnds}

Getters ==
    {"get_byte", "get_short", "get_long", "get_float", "get_longlong",
     "get_string"}

Decoders ==
    {"Info::from_bytes", "Player::get_players", "Server::get_rules",
     "compress_trailing_null_bytes"} \cup Getters

Inputs(f) ==
    CASE f = "Info::from_bytes" -> InfoInputs
      [] f = "Player::get_players" -> PlayerInputs
      [] f = "Server::get_rules" -> RulesInputs
      [] f = "compress_trailing_null_bytes" -> ByteSeqs({0, 1, 2}, MaxBytes)
      [] OTHER -> ByteSeqs({0, 129}, MaxCursor)

\* a function of Decoders is about to be called on the slice in payload
DecodeInit ==
    /\ pc = "idle"
    /\ \E f \in Decoders : op = f /\ payload \in Inputs(f)
    /\ request = <<>>
    /\ buffer = <<>>
    /\ total = 0
    /\ packet_map = EmptyMap
    /\ result = NoResult
    /\ sent = <<>>
    /\ log = <<>>
    /\ answer = None
    /\ nrecv = 0
    /\ calls = 0
    /\ learned = FALSE

\* the call returns r, or panics
Return(r) ==
    /\ pc' = IF r.kind = "Panic" THEN "aborted" ELSE "returned"
    /\ result' = r
    /\ UNCHANGED <<op, request, buffer, total, packet_map, payload, sent,
                   log, answer, nrecv, calls, learned>>

CallInfoFromBytes ==
    /\ pc = "idle"
    /\ op = "Info::from_bytes"
    /\ Return(Decode("info", payload, payload))

CallGetPlayers ==
    /\ pc = "idle"
    /\ op = "Player::get_players"
    /\ LET ps == get_players(payload)
       IN  Return(IF ps.ok THEN OkResult(ps.v) ELSE Panic("decode"))

CallGetRules ==
    /\ pc = "idle"
    /\ op = "Server::get_rules"
    /\ Return(Decode("rules", payload, payload))

CallCompress ==
    /\ pc = "idle"
    /\ op = "compress_trailing_null_bytes"
    /\ Return(OkResult(compress_trailing_null_bytes(payload)))

\* the getter named g run on the iterator c
Getter(g, c) ==
    CASE g = "get_byte" -> get_byte(c)
      [] g = "get_short" -> get_short(c)
      [] g = "get_long" -> get_long(c)
      [] g = "get_float" -> get_float(c)
      [] g = "get_longlong" -> get_longlong(c)
      [] g = "get_string" -> get_string(c)

\* a getter is called on an iterator over payload: the value read and the
\* bytes left under the iterator
CallGetter ==
    /\ pc = "idle"
    /\ op \in Getters
    /\ LET c == Getter(op, Iter(payload))
       IN  Return(IF c.ok THEN OkResult([v |-> c.v, it |-> c.it])
                  ELSE Panic("next byte exists"))

DecodeNext ==
    \/ CallInfoFromBytes
    \/ CallGetPlayers
    \/ CallGetRules
    \/ CallCompress
    \/ CallGetter

SpecDecode == DecodeInit /\ [][DecodeNext]_vars

\* ------------------------------------------------------------------------
\* The calls followed to their end.  The while loop of the reassembly has
\* no bound of its own: past the MaxRecv receives the model counts it goes
\* on receiving, with nrecv and log left as they are.  A send_to returns,
\* and a recv returns with a datagram or with the timeout error of the
\* read timeout set in Server::new.
\* ------------------------------------------------------------------------
RecvFragmentOn(d) ==
    /\ pc = "recvFrag"
    /\ nrecv = MaxRecv
    /\ buffer' = d
    /\ Locals(LoopBody(op, total, packet_map, d))
    /\ UNCHANGED <<op, request, sent, log, answer, nrecv, calls, learned>>

Send == SendRequest \/ SendError

Receive ==
    \/ RecvError
    \/ \E d \in Datagrams : Recv(d)
    \/ \E d \in Datagrams : RecvFragmentOn(d)

LiveNext ==
    \/ \E o \in Ops : Call(o)
    \/ Send
    \/ Receive

SpecLive ==
    Init /\ [][LiveNext]_vars /\ WF_vars(Send) /\ WF_vars(Receive)

\* ------------------------------------------------------------------------
\* Vocabulary of the properties
\* ------------------------------------------------------------------------
Finished == pc \in {"returned", "aborted"}

\* the datagram that went through the header classification is a split one
SplitAnswer ==
    answer # None /\ PacketHeader(answer[1]) = MULTI_PACKET_RESPONSE_HEADER

\* the while loop has been left through its test: the payload was built
ReassemblyDone ==
    /\ SplitAnswer
    /\ Finished
    /\ \/ result.kind = "Ok"
       \/ result.kind = "Panic" /\ result.v # <<"slice">>

Stored == Cardinality(DOMAIN packet_map)

\* number of bytes stored under the keys of m that are smaller than k
RECURSIVE BytesBelow(_, _)
BytesBelow(m, k) ==
    IF \A j \in DOMAIN m : j >= k THEN 0
    ELSE LET j == CHOOSE x \in DOMAIN m : x < k
         IN  Len(m[j]) + BytesBelow([x \in DOMAIN m \ {j} |-> m[x]], k)

\* the socket calls of the log, in order
SocketCalls == SelectSeq(log, LAMBDA e : e # "classify")

\* ------------------------------------------------------------------------
\* C1 (as claimed): when the datagram classified as the answer begins with
\* 4 bytes other than FF FF FF FF and FF FF FF FE, the operation returns an
\* UnrecognizedHeader error value and does not abort.  The code panics.
\* ------------------------------------------------------------------------
C1_UnrecognizedHeaderIsError ==
    (/\ answer # None
     /\ PacketHeader(answer[1]) # SIMPLE_RESPONSE_HEADER
     /\ PacketHeader(answer[1]) # MULTI_PACKET_RESPONSE_HEADER)
    => (pc = "returned" /\ result.kind = "Err")

\* ------------------------------------------------------------------------
\* C2: once reassembly is complete the payload is the stored fragments in
\* ascending order of fragment index: the bytes stored for index k start
\* right behind the bytes of all smaller indices, and nothing else is in
\* the payload, whatever the order of arrival was.
\* ------------------------------------------------------------------------
C2_PayloadInIndexOrder ==
    ReassemblyDone =>
        /\ Len(payload) = BytesBelow(packet_map, 256)
        /\ \A k \in DOMAIN packet_map :
               SubSeq(payload, BytesBelow(packet_map, k) + 1,
                      BytesBelow(packet_map, k) + Len(packet_map[k]))
                   = packet_map[k]

\* fragments 2, 0, 1 arrived in that order (first 2, last 1) and the
\* payload is fragment 0, 1, 2
C2_Witness ==
    /\ ReassemblyDone
    /\ total = 3
    /\ get_multipacket_data(answer[1]).packet_id = 2
    /\ get_multipacket_data(buffer).packet_id = 1
    /\ nrecv - (IF op = "info" THEN 0 ELSE 1) = 3
    /\ payload = <<10, 0, 11, 0, 12, 0>>

\* ------------------------------------------------------------------------
\* C3 (as claimed): a split packet received in the loop whose index is
\* already stored replaces the bytes stored for that index, leaves every
\* other entry and the number of stored indices as they were, and raises
\* no error: the loop goes on waiting.  A duplicate that fills the receive
\* buffer makes the slice of its payload panic before the insertion.
\* ------------------------------------------------------------------------
\* a datagram with the split marker and the 10 bytes of the split header
IsSplitPacket(d) ==
    Len(d) >= 10 /\ PacketHeader(d) = MULTI_PACKET_RESPONSE_HEADER

DuplicateArrives ==
    /\ pc = "recvFrag"
    /\ nrecv' = nrecv + 1
    /\ IsSplitPacket(buffer')
    /\ get_multipacket_data(buffer').packet_id \in DOMAIN packet_map

C3_DuplicateOverwrites ==
    [][DuplicateArrives =>
        /\ packet_map' =
             [packet_map EXCEPT ![get_multipacket_data(buffer').packet_id]
                                    = Fragment(buffer')]
        /\ Cardinality(DOMAIN packet_map') = Stored
        /\ pc' = "recvFrag"
        /\ result' = NoResult]_vars

\* ------------------------------------------------------------------------
\* C4 (as claimed): the loop stops receiving exactly when the number of
\* distinct indices stored equals the total declared by the first
\* fragment, whatever total later fragments declare.  A first fragment
\* declaring total 0 ends the loop with one index stored.
\* ------------------------------------------------------------------------
C4_StopsExactlyAtTotal ==
    /\ SplitAnswer => total = get_multipacket_data(answer[1]).total
    /\ pc = "recvFrag" => Stored # total
    /\ ReassemblyDone => Stored = total

\* ------------------------------------------------------------------------
\* C5: a failed send or receive is the last socket call of the operation,
\* and the operation has returned the error: no further send or receive,
\* no typed result.
\* ------------------------------------------------------------------------
C5_IoFailureReturnsError ==
    \A i \in 1..Len(log) :
        log[i] \in {"sendErr", "recvErr"} =>
            /\ i = Len(log)
            /\ pc = "returned"
            /\ result.kind = "Err"

\* the receive timed out while fragments of a split response were missing
C5_Witness ==
    /\ log # <<>>
    /\ log[Len(log)] = "recvErr"
    /\ SplitAnswer
    /\ Stored >= 1
    /\ Stored < total
    /\ result.kind = "Err"

\* ------------------------------------------------------------------------
\* C6: one call passes at most two datagrams to send_to, whatever the
\* server replies.
\* ------------------------------------------------------------------------
C6_AtMostTwoSends ==
    /\ Len(sent) <= 2
    /\ Len(SelectSeq(log, LAMBDA e : e \in {"send", "sendErr"})) = Len(sent)

\* the reply to the second request has the shape of a challenge again, and
\* the call is over after two sends
C6_Witness ==
    /\ Finished
    /\ Len(sent) = 2
    /\ answer = Some(ChallengeReply)

\* ------------------------------------------------------------------------
\* C7 (as claimed): info() goes on to the second send if and only if the
\* first reply is exactly 9 bytes long, and a longer first reply is the
\* datagram classified, with no second request.  A 9-byte reply without
\* 5 bytes in front of its trailing zeros makes info() panic instead.
\* ------------------------------------------------------------------------
C7_ResendIffNineBytes ==
    [][(pc = "recv1" /\ op = "info" /\ nrecv' = nrecv + 1) =>
          /\ (pc' = "send2") <=> (Len(buffer') = 9)
          /\ Len(buffer') > 9 => (answer' = Some(buffer') /\ pc' # "send2")
      ]_vars

\* ------------------------------------------------------------------------
\* C8: players() and rules() call the socket in the order send, receive,
\* send, receive (then only further receives): the first request carries
\* the FF FF FF FF placeholder, the second one the challenge taken from
\* the first reply, and the header classification is run after the second
\* receive, never on the first reply.
\* ------------------------------------------------------------------------
C8_HandshakeOrder ==
    op \in {"players", "rules"} =>
        /\ \A i \in 1..Len(log) :
               log[i] \in (CASE i \in {1, 3} -> {"send", "sendErr"}
                             [] i \in {2, 4} -> {"recv", "recvErr"}
                             [] i = 5 -> {"classify"}
                             [] OTHER -> {"recv", "recvErr"})
        /\ Len(sent) >= 1 =>
               sent[1] = <<255, 255, 255, 255, KindByte(op),
                           255, 255, 255, 255>>
        /\ pc = "recv2" =>
               sent[2] = <<255, 255, 255, 255, KindByte(op)>>
                             \o Challenge(buffer)
        /\ answer # None => nrecv >= 2 /\ Len(sent) = 2

\* players() ran the whole exchange and returned a player list
C8_Witness ==
    /\ op = "players"
    /\ SocketCalls = <<"send", "recv", "send", "recv">>
    /\ result.kind = "Ok"
    /\ answer = Some(PlayersAnswer)

\* ------------------------------------------------------------------------
\* C9 (as claimed): the challenge put into the second request is exactly
\* 4 bytes, the last 4 bytes of the first reply once its trailing zero
\* bytes are trimmed, so that the Player/Rules request is 9 bytes.  The
\* code takes every byte from position 5 to the end of the trimmed reply.
\* ------------------------------------------------------------------------
C9_TokenIsFourBytes ==
    pc = "send2" =>
        /\ Len(request) = Len(RequestStem(op)) + 4
        /\ request = RequestStem(op)
                         \o SubSeq(buffer, TrimmedLen(buffer) - 3,
                                   TrimmedLen(buffer))
        /\ op # "info" => Len(request) = 9

\* ------------------------------------------------------------------------
\* C10: no state is carried from one call to the next: the first datagram
\* a call sends is the fixed initial request of its operation, and at its
\* first send every local of the call (request, receive buffer, fragment
\* map, total, payload, result) is fresh.
\* ------------------------------------------------------------------------
C10_NoCrossCallState ==
    /\ Len(sent) >= 1 => sent[1] = InitialRequest(op)
    /\ pc = "send1" =>
           /\ request = InitialRequest(op)
           /\ buffer = <<>>
           /\ packet_map = EmptyMap
           /\ total = 0
           /\ payload = <<>>
           /\ result.kind = "None"
           /\ answer = None
           /\ log = <<>>
           /\ nrecv = 0

\* a second call has sent its first request after an earlier call learned
\* a challenge token
C10_Witness ==
    /\ calls = 2
    /\ learned
    /\ pc = "recv1"
    /\ Len(sent) = 1

\* ------------------------------------------------------------------------
\* Vocabulary of the decoder properties
\* ------------------------------------------------------------------------
\* the call of the function f on payload is over (returned or panicked)
Called(f) == op = f /\ pc # "idle"

\* Info::from_bytes returned an Info
InfoDecoded == Called("Info::from_bytes") /\ result.kind = "Ok"

\* the payload begins with the fixed fields of InfoHeadPlain
PlainHead ==
    /\ Len(payload) >= Len(InfoHeadPlain)
    /\ SubSeq(payload, 1, Len(InfoHeadPlain)) = InfoHeadPlain

\* the bitmask byte of such a payload: the byte behind the game version
InfoFlagByte ==
    IF Len(payload) > Len(InfoHeadPlain)
    THEN <<payload[Len(InfoHeadPlain) + 1]>>
    ELSE <<>>

\* the bytes of such a payload behind the bitmask byte
InfoTail == SubSeq(payload, Len(InfoHeadPlain) + 2, Len(payload))

\* the bit `mask` (a power of two) is set in the byte f
HasBit(f, mask) == f % (2 * mask) >= mask

\* the optional fields of Info with their bits
OptionalFields ==
    {<<"port", 128>>, <<"steam_id", 16>>, <<"spectator_port", 64>>,
     <<"spectator_name", 64>>, <<"keywords", 32>>, <<"game_id", 1>>}

\* ------------------------------------------------------------------------
\* C11: in a decoded Info each optional field (port, SteamID, SourceTV port
\* and name, keywords, GameID) is present if and only if its bit (0x80,
\* 0x10, 0x40, 0x20, 0x01) is set in the bitmask byte; with bitmask 0x00
\* or without a bitmask byte decoding succeeds and every optional field is
\* absent; with bitmask 0x80 exactly the port is present.
\* ------------------------------------------------------------------------
C11_OptionalFieldsFollowBitmask ==
    /\ (InfoDecoded /\ PlainHead) =>
           \A fd \in OptionalFields :
               (result.v[fd[1]] # None)
                   <=> (InfoFlagByte # <<>> /\ HasBit(InfoFlagByte[1], fd[2]))
    /\ (Called("Info::from_bytes") /\ PlainHead
            /\ InfoFlagByte \in {<<>>, <<0>>}) =>
           /\ InfoDecoded
           /\ \A fd \in OptionalFields : result.v[fd[1]] = None
    /\ (InfoDecoded /\ PlainHead /\ InfoFlagByte = <<128>>) =>
           \A fd \in OptionalFields :
               (result.v[fd[1]] # None) <=> (fd[1] = "port")

\* an Info decoded under the bitmask 0x91 (with bytes behind it): port,
\* SteamID and GameID are present, SourceTV and keywords are absent
C11_Witness ==
    /\ InfoDecoded
    /\ InfoFlagByte = <<145>>
    /\ Len(InfoTail) = MaxTail
    /\ result.v["port"] # None
    /\ result.v["steam_id"] # None
    /\ result.v["game_id"] # None
    /\ result.v["spectator_name"] = None
    /\ result.v["keywords"] = None


\* the bytes an optional field takes on the wire: nothing when absent, a
\* short in 2 and a long long in 8 little-endian bytes, a string followed
\* by a zero byte
ShortWire(x) ==
    IF x = None THEN <<>> ELSE <<x[1] % 256, (x[1] \div 256) % 256>>

LongLongWire(x) ==
    IF x = None THEN <<>> ELSE [i \in 1..8 |-> x[1][9 - i]]

StringWire(x) == IF x = None THEN <<>> ELSE x[1] \o <<0>>

\* the optional fields of the Info i on the wire, in the order port,
\* SteamID, SourceTV port and name, keywords, GameID
OptionalWire(i) ==
    ShortWire(i["port"]) \o LongLongWire(i["steam_id"])
        \o ShortWire(i["spectator_port"]) \o StringWire(i["spectator_name"])
        \o StringWire(i["keywords"]) \o LongLongWire(i["game_id"])

\* ------------------------------------------------------------------------
\* C12: the optional fields of Info are consumed in the fixed order port,
\* SteamID, SourceTV port and name, keywords, GameID, for every bitmask
\* value: the bytes behind the bitmask byte begin with the present fields
\* one right behind the other in that order.
\* ------------------------------------------------------------------------
C12_OptionalFieldsInFixedOrder ==
    (InfoDecoded /\ PlainHead /\ InfoFlagByte # <<>>) =>
        /\ Len(OptionalWire(result.v)) <= Len(InfoTail)
        /\ SubSeq(InfoTail, 1, Len(OptionalWire(result.v)))
               = OptionalWire(result.v)

\* all five groups present (bitmask 0xF1) in the bytes 1 2 3 4 0 6 ...:
\* the port is read from bytes 1-2, the SourceTV name from byte 13 on, the
\* keywords from byte 16 on
C12_Witness ==
    /\ InfoDecoded
    /\ InfoFlagByte = <<241>>
    /\ InfoTail = Ramp(MaxTail)
    /\ result.v["port"] = <<513>>
    /\ result.v["spectator_port"] = <<11 + 256 * 12>>
    /\ result.v["spectator_name"] = << <<13, 14>> >>
    /\ result.v["keywords"] = << <<16, 17, 18, 19>> >>
    /\ result.v["game_id"] = << <<28, 27, 26, 0, 24, 23, 22, 21>> >>


\* the bytes of the payload behind the optional fields of the decoded Info
InfoLeftover ==
    SubSeq(InfoTail, Len(OptionalWire(result.v)) + 1, Len(InfoTail))

\* number of bytes of b in front of its run of trailing zero bytes
BeforeTrailingZeros(b) ==
    CHOOSE n \in 0..Len(b) :
        /\ \A i \in (n + 1)..Len(b) : b[i] = 0
        /\ n > 0 => b[n] # 0

\* b with its run of trailing zero bytes replaced by one zero byte
Collapsed(b) ==
    IF BeforeTrailingZeros(b) = Len(b) THEN b
    ELSE SubSeq(b, 1, BeforeTrailingZeros(b)) \o <<0>>

\* ------------------------------------------------------------------------
\* C13 (as claimed): whenever bytes remain behind the fixed and optional
\* fields, the decoded Info keeps them as residue: the leftover bytes with
\* their run of trailing zero bytes collapsed to one zero byte; no
\* leftover is discarded.  The code discards a leftover that collapses to
\* the single zero byte, and keeps two zero bytes of a longer run of zeros.
\* ------------------------------------------------------------------------
C13_ResidueIsCollapsedLeftover ==
    (InfoDecoded /\ PlainHead /\ InfoFlagByte # <<>>) =>
        /\ InfoLeftover # <<>> =>
               result.v["trailing_bytes"] = Some(Collapsed(InfoLeftover))
        /\ InfoLeftover = <<>> => result.v["trailing_bytes"] = None


\* ------------------------------------------------------------------------
\* Players
\* ------------------------------------------------------------------------
\* Player::get_players returned a list
PlayersDecoded == Called("Player::get_players") /\ result.kind = "Ok"

\* bytes of the payload behind the first j of the players returned
LeftBehind(j) == Len(payload) - Len(PlayersWire(SubSeq(result.v, 1, j)))

\* ------------------------------------------------------------------------
\* C14: the player-list decoder decodes one record per iteration while
\* more than 9 bytes remain and stops as soon as 9 or fewer remain: the
\* records returned are the first bytes of the payload, more than 9 bytes
\* were left in front of each of them and at most 9 are left behind the
\* last one; a payload of 9 bytes or fewer decodes to the empty sequence
\* and is not an error.
\* ------------------------------------------------------------------------
C14_LoopRunsWhileMoreThanNine ==
    /\ PlayersDecoded =>
           /\ SubSeq(payload, 1, Len(PlayersWire(result.v)))
                  = PlayersWire(result.v)
           /\ \A j \in 0..(Len(result.v) - 1) : LeftBehind(j) > 9
           /\ LeftBehind(Len(result.v)) <= 9
    /\ (Called("Player::get_players") /\ Len(payload) <= 9) =>
           (PlayersDecoded /\ result.v = <<>>)

\* two records were decoded and the loop stopped with exactly 9 bytes left
C14_Witness ==
    /\ PlayersDecoded
    /\ Len(result.v) = 2
    /\ LeftBehind(2) = 9


\* every list of PlayerLists with its bytes on the wire
PlayerTable == {<<PlayersWire(ps), ps>> : ps \in PlayerLists}

\* ------------------------------------------------------------------------
\* C15: for every payload that is the concatenation of k complete Player
\* records (index byte, name of any length with its zero byte, 4-byte
\* score, 4-byte duration) the decoder returns exactly these k records in
\* the order of the payload: the loop test drops or truncates none.
\* ------------------------------------------------------------------------
C15_CompleteRecordsAllDecoded ==
    Called("Player::get_players") =>
        \A e \in PlayerTable :
            e[1] = payload => (PlayersDecoded /\ result.v = e[2])

\* two records of which the last has an empty name, 10 bytes on the wire,
\* and a negative score: both are returned
C15_Witness ==
    /\ PlayersDecoded
    /\ Len(result.v) = 2
    /\ LeftBehind(2) = 0
    /\ result.v[1].name = <<65, 66>>
    /\ result.v[1].score = 5
    /\ result.v[2].name = <<>>
    /\ result.v[2].score = -1

\* ------------------------------------------------------------------------
\* Rules
\* ------------------------------------------------------------------------
\* Server::get_rules returned a mapping
RulesDecoded == Called("Server::get_rules") /\ result.kind = "Ok"

\* every list of RuleLists with its bytes on the wire
RuleTable == {<<RulesWire(rs), rs>> : rs \in RuleLists}

\* the pair at position i of rs is the last one of rs with its name
LastOccurrence(rs, i) == \A j \in (i + 1)..Len(rs) : rs[j][1] # rs[i][1]

\* ------------------------------------------------------------------------
\* C16: the rules decoder reads (name, value) pairs until the payload is
\* exhausted and returns a mapping with one entry for each distinct name;
\* a name that occurs more than once keeps the value of its last
\* occurrence.
\* ------------------------------------------------------------------------
C16_RulesLastOccurrenceWins ==
    Called("Server::get_rules") =>
        \A e \in RuleTable :
            e[1] = payload =>
                /\ RulesDecoded
                /\ DOMAIN result.v = {e[2][i][1] : i \in 1..Len(e[2])}
                /\ \A i \in 1..Len(e[2]) :
                       LastOccurrence(e[2], i) =>
                           result.v[e[2][i][1]] = e[2][i][2]

\* the payload n\0 1\0 mp\0 \0 n\0 23\0: two entries, "n" has the value
\* of its second occurrence
C16_Witness ==
    /\ RulesDecoded
    /\ payload = <<110, 0, 49, 0, 109, 112, 0, 0, 110, 0, 50, 51, 0>>
    /\ DOMAIN result.v = {<<110>>, <<109, 112>>}
    /\ result.v[<<110>>] = <<50, 51>>
    /\ result.v[<<109, 112>>] = <<>>


\* the payload ends in a string without its zero byte, or in a name
\* without a value (an odd number of strings)
IncompletePair ==
    /\ payload # <<>>
    /\ \/ payload[Len(payload)] # 0
       \/ Cardinality({i \in 1..Len(payload) : payload[i] = 0}) % 2 = 1

\* ------------------------------------------------------------------------
\* C17 (as claimed): a Rules payload that ends in an incomplete pair (a
\* name without a value, or a string without its zero byte) makes the
\* rules decoder return a TruncatedInput error value: the partial pair is
\* not dropped silently and the process is not aborted.  The code panics
\* in get_string.
\* ------------------------------------------------------------------------
C17_IncompletePairIsError ==
    (Called("Server::get_rules") /\ IncompletePair) =>
        (pc = "returned" /\ result.kind = "Err")


\* ------------------------------------------------------------------------
\* Getters
\* ------------------------------------------------------------------------
\* bytes a getter of a fixed-size value needs
Width(g) ==
    CASE g = "get_byte" -> 1
      [] g = "get_short" -> 2
      [] g = "get_long" -> 4
      [] g = "get_float" -> 4
      [] g = "get_longlong" -> 8

\* the cursor over payload runs out of bytes under the getter op
RunsOut ==
    IF op = "get_string" THEN \A i \in 1..Len(payload) : payload[i] # 0
    ELSE Len(payload) < Width(op)

\* the loop of get_players is entered and the zero byte of the first name
\* does not come early enough for a score and a duration to follow it
TruncatedFirstRecord ==
    /\ Len(payload) > 9
    /\ \A i \in 2..(Len(payload) - 8) : payload[i] # 0

\* ------------------------------------------------------------------------
\* C18 (as claimed): every primitive decode (byte, short, long, float,
\* long long, string) on a cursor that runs out of bytes fails with a
\* recoverable TruncatedInput result and never aborts; consequently Info,
\* Player and Rules decoding of a truncated payload returns an error
\* value.  The getters panic through expect.
\* ------------------------------------------------------------------------
C18_TruncationIsRecoverable ==
    /\ (op \in Getters /\ pc # "idle") =>
           /\ pc = "returned"
           /\ RunsOut => result.kind = "Err"
    /\ (Called("Info::from_bytes") /\ Len(payload) < Len(InfoHeadPlain)) =>
           (pc = "returned" /\ result.kind = "Err")
    /\ (Called("Server::get_rules") /\ IncompletePair) =>
           (pc = "returned" /\ result.kind = "Err")
    /\ (Called("Player::get_players") /\ TruncatedFirstRecord) =>
           (pc = "returned" /\ result.kind = "Err")


\* ------------------------------------------------------------------------
\* Enum bytes of Info
\* ------------------------------------------------------------------------
\* the enum bytes and their variants
ServerKinds ==
    {<<100, "Dedicated">>, <<108, "NonDedicated">>, <<112, "SourceTvRelay">>}

Platforms ==
    {<<108, "Linux">>, <<119, "Windows">>, <<109, "Mac">>, <<111, "Mac">>}

Visibilities == {<<0, "Public">>, <<1, "Private">>}

VacFlags == {<<0, "Unsecured">>, <<1, "Secured">>}

\* the byte b has a variant in the table t
Known(b, t) == \E e \in t : e[1] = b

\* the payload is the fixed fields and nothing else; its enum bytes are
\* the bytes 16 to 19
BareHead ==
    /\ Len(payload) = Len(InfoHeadPlain)
    /\ payload = InfoHead(payload[16], payload[17], payload[18], payload[19])

\* ------------------------------------------------------------------------
\* C19 (as claimed): the enum bytes of Info decode as server kind 'd', 'l',
\* 'p' to Dedicated, NonDedicated, SourceTvRelay; platform 'l', 'w', 'm'
\* or 'o' to Linux, Windows, Mac; visibility 0, 1 to Public, Private; VAC
\* 0, 1 to Unsecured, Secured; every other byte in one of the four
\* positions makes Info decoding return an UnrecognizedEnumByte error
\* value, neither a coerced variant nor an abort.  The code panics.
\* ------------------------------------------------------------------------
C19_EnumBytesDecodeOrError ==
    (Called("Info::from_bytes") /\ BareHead) =>
        IF /\ Known(payload[16], ServerKinds)
           /\ Known(payload[17], Platforms)
           /\ Known(payload[18], Visibilities)
           /\ Known(payload[19], VacFlags)
        THEN /\ InfoDecoded
             /\ <<payload[16], result.v["server_type"]>> \in ServerKinds
             /\ <<payload[17], result.v["environment"]>> \in Platforms
             /\ <<payload[18], result.v["visibility"]>> \in Visibilities
             /\ <<payload[19], result.v["vac"]>> \in VacFlags
        ELSE pc = "returned" /\ result.kind = "Err"


\* ------------------------------------------------------------------------
\* C20 (as claimed): compress_trailing_null_bytes leaves b unchanged when
\* b is empty or does not end in a zero byte, and otherwise replaces the
\* maximal run of trailing zero bytes of b by exactly one zero byte and
\* keeps every byte in front of the run; the result never ends in two zero
\* bytes.  The code returns two zero bytes for two or more bytes that are
\* all zero.
\* ------------------------------------------------------------------------
C20_CompressCollapsesTrailingRun ==
    Called("compress_trailing_null_bytes") =>
        /\ result.v = Collapsed(payload)
        /\ ~(/\ Len(result.v) >= 2
             /\ result.v[Len(result.v)] = 0
             /\ result.v[Len(result.v) - 1] = 0)


SimpleAnswer ==
    answer # None /\ PacketHeader(answer[1]) = SIMPLE_RESPONSE_HEADER

\* the call is over and no socket call of it failed
FinishedNoIoError == Finished /\ result.kind # "Err"

\* ------------------------------------------------------------------------
\* C22 (as claimed): players() decodes its result from the response
\* payload: for a simple answer that carries, behind the marker, the
\* header byte 'D' and the count byte, k well-formed Player records,
\* players() returns exactly those k records in order.  The code decodes
\* the receive buffer from byte 2 on, marker and header included.
\* ------------------------------------------------------------------------
\* the bytes b are complete Player records one behind the other
CompleteRecords(b) == PlayersWire(get_players(b).v) = b

\* the bytes of a simple A2S_PLAYER answer behind marker, 'D' and count
PlayerData == SubSeq(answer[1], 7, Len(answer[1]))

C22_PlayersDecodedFromPayload ==
    (/\ op = "players"
     /\ SimpleAnswer
     /\ FinishedNoIoError
     /\ Len(answer[1]) >= 6
     /\ answer[1][5] = 68
     /\ CompleteRecords(PlayerData)) =>
        /\ result.kind = "Ok"
        /\ Len(result.v) = answer[1][6]
        /\ PlayersWire(result.v) = PlayerData


\* the bytes of the datagram d behind its first k bytes
Behind(d, k) == SubSeq(d, k + 1, Len(d))

\* ------------------------------------------------------------------------
\* C23 (as claimed): the payload taken from a received datagram of n bytes
\* is exactly its bytes 4..n-1 for a simple response and its bytes 10..n-1
\* for a split fragment: no byte of the receive buffer at or behind
\* position n is part of a payload or of the reassembled payload.  The
\* code slices up to position n + 1, up to the end of the buffer, or
\* compresses the whole buffer.
\* ------------------------------------------------------------------------
C23_PayloadIsDatagramBody ==
    /\ (SimpleAnswer /\ FinishedNoIoError /\ Len(answer[1]) >= 4) =>
           payload = Behind(answer[1], 4)
    /\ \A k \in DOMAIN packet_map :
           \E d \in Datagrams :
               /\ Len(d) >= 10
               /\ get_multipacket_data(d).packet_id = k
               /\ packet_map[k] = Behind(d, 10)
    /\ ReassemblyDone => Len(payload) = BytesBelow(packet_map, 256)


\* a datagram arrives in the reassembly loop
LoopReceive == pc = "recvFrag" /\ nrecv' = nrecv + 1

\* ------------------------------------------------------------------------
\* C24 (as claimed): during reassembly every further datagram is
\* classified before use: a datagram whose first 4 bytes are not
\* FF FF FF FE is never inserted into the fragment map and contributes no
\* byte to the reassembled payload.  The loop does not look at the marker.
\* ------------------------------------------------------------------------
C24_LoopClassifiesDatagrams ==
    [][(LoopReceive /\ PacketHeader(buffer') # MULTI_PACKET_RESPONSE_HEADER)
          => (packet_map' = packet_map /\ payload' = <<>>)]_vars


\* ------------------------------------------------------------------------
\* C25 (as claimed): every operation eventually returns, a result or an
\* error, whatever the server does, given only that each receive either
\* delivers a datagram or times out: a server that keeps sending fragments
\* with indices already stored cannot keep the reassembly loop running for
\* ever.  The loop ends only when the map holds `total` indices.
\* ------------------------------------------------------------------------
C25_EveryCallReturns ==
    (pc \in {"send1", "recv1", "send2", "recv2", "recvFrag"}) ~> Finished


\* ------------------------------------------------------------------------
\* C26 (as claimed): for every received datagram of 4 to 1400 bytes with a
\* recognized marker, extracting the payload never indexes outside the
\* 1400-byte receive buffer: a datagram that fills the buffer is processed
\* like any other and does not abort the operation.  The slices of info()
\* and of every fragment end at bytes_returned + 1.
\* ------------------------------------------------------------------------
C26_PayloadSliceInBuffer ==
    (/\ Len(buffer) >= 4
     /\ Len(buffer) <= PACKET_SIZE
     /\ PacketHeader(buffer) \in {SIMPLE_RESPONSE_HEADER,
                                  MULTI_PACKET_RESPONSE_HEADER}) =>
        ~(result.kind = "Panic" /\ result.v = <<"slice">>)


\* the first reply was received, was 9 bytes long and was not classified:
\* it is a challenge reply
NineByteChallenge == nrecv = 1 /\ Len(buffer) = 9 /\ answer = None

\* ------------------------------------------------------------------------
\* C27 (as claimed): for a 9-byte challenge reply the token echoed in the
\* second request is the bytes 5..8 of the reply, for every token value,
\* tokens ending in zero bytes included: trimming the zero-filled receive
\* buffer neither shortens the token nor makes its extraction abort.  The
\* code trims the zero bytes of the token with the padding.
\* ------------------------------------------------------------------------
C27_TokenIsBytesFiveToEight ==
    NineByteChallenge =>
        /\ pc # "aborted"
        /\ pc \in {"send2", "recv2"} =>
               request = RequestStem(op) \o SubSeq(buffer, 6, 9)


\* ------------------------------------------------------------------------
\* C28 (as claimed): when reassembly completes with the declared total t,
\* the indices stored are exactly 0..t-1: a fragment with an index of t or
\* more does not count towards completion, no payload is produced while
\* an index below t is missing, and with t = 0 none is produced from the
\* first fragment alone.  The code counts the stored indices only.
\* ------------------------------------------------------------------------
C28_StoredIndicesAreZeroToTotal ==
    ReassemblyDone => DOMAIN packet_map = 0..(total - 1)


\* ------------------------------------------------------------------------
\* C29 (as claimed): all fragments joined into one payload carry the
\* answer id of the first fragment: a fragment with another answer id
\* received during reassembly is not stored and does not count towards
\* completion.  The code reads the answer id and drops it.
\* ------------------------------------------------------------------------
C29_OtherAnswerIdNotStored ==
    [][(/\ LoopReceive
        /\ IsSplitPacket(buffer')
        /\ get_multipacket_data(buffer').answer_id
               # get_multipacket_data(answer[1]).answer_id)
          => (packet_map' = packet_map /\ pc' = "recvFrag")]_vars


\* the bytes of a simple A2S_RULES answer behind its 7-byte prefix
RuleData == SubSeq(answer[1], 8, Len(answer[1]))

\* the bytes b are complete pairs name, zero byte, value, zero byte: b is
\* empty, or ends in a zero byte and holds an even number of zero bytes
CompletePairs(b) ==
    \/ b = <<>>
    \/ /\ b[Len(b)] = 0
       /\ Cardinality({i \in 1..Len(b) : b[i] = 0}) % 2 = 0

\* ------------------------------------------------------------------------
\* C30 (as claimed): for a simple Rules response whose data behind the
\* 7-byte prefix is a sequence of complete name\0value\0 pairs, rules()
\* returns exactly those pairs, also when the last value (or the last name
\* and value) is the empty string: trimming the zero padding of the
\* receive buffer removes no terminator of the last pair.  The code
\* collapses the terminators of trailing empty strings with the padding.
\* ------------------------------------------------------------------------
C30_RulesSurviveTrimming ==
    (/\ op = "rules"
     /\ SimpleAnswer
     /\ FinishedNoIoError
     /\ Len(answer[1]) >= 7
     /\ answer[1][5] = 69
     /\ CompletePairs(RuleData)) =>
        /\ result.kind = "Ok"
        /\ result.v = get_rules(RuleData).v

====
